---- MODULE Spec2Model ----
(***************************************************************************)
(* A model of greenStrain.py: the numerical functions quat2matrix, tensor2 *)
(* and green, the field assembly calculateGE, the store traversal fromOdb  *)
(* and the command-line loop.                                              *)
(*                                                                         *)
(* Numbers.  Every number is a dyadic rational <<m, k>> = m / 2^k in       *)
(* lowest terms.  The inputs of the model are small dyadic rationals, on   *)
(* which IEEE floating-point +, -, * and /2 are exact, so the exact        *)
(* arithmetic below is the arithmetic numpy performs on them.              *)
(*                                                                         *)
(* Arrays.  A numpy array is an object on a heap: heap[a] is the record    *)
(* [shape, data] with data in row-major order.  An address is a 4-tuple:   *)
(* <<s, f, b, k>> names array k (1 data, 2 elementLabels, 3                *)
(* localCoordSystem) of block b of frame f of step s of the opened store,  *)
(* <<0, 0, 0, n>> names the n-th array allocated by the program, and None  *)
(* is Python's None.  A function that works on arrays takes the heap and   *)
(* returns [h, v, exc]: the heap after the call, the address returned and  *)
(* the exception raised ("" when none).                                    *)
(***************************************************************************)
EXTENDS Integers, Sequences, FiniteSets, TLC

VARIABLES
    argv,                    \* sys.argv[1:]
    argi,                    \* position of the command-line loop in argv
    pc,                      \* where the program is
    caller,                  \* who called fromOdb: "cli" or "hook"
    odbName,                 \* the argument of the running fromOdb
    enableLocalCoordSystem,  \* the module's global toggle
    disk,                    \* the odb files that exist, by name, as first read
    odb,                     \* the store opened by fromOdb
    cursor,                  \* <<step, frame, block>> of the traversal
    heap,                    \* the arrays
    stderr,                  \* what was printed to sys.stderr
    stdout,                  \* what was printed to sys.stdout
    exc,                     \* the exception propagating, "" when none
    opened,                  \* per file name, how often openOdb returned a store
    closed,                  \* per file name, how often that store was closed
    call,                    \* a direct call of a numerical function
    ret                      \* what that call returned

vars == <<argv, argi, pc, caller, odbName, enableLocalCoordSystem, disk, odb,
          cursor, heap, stderr, stdout, exc, opened, closed, call, ret>>

(***************************************************************************)
(* Bounds of the model.                                                    *)
(***************************************************************************)
MaxRows == 2      \* rows of a batch
CompBase == 3     \* how many of the Values a component is drawn from
MaxArgs == 2      \* command-line arguments
MaxSteps == 2     \* steps of a store
MaxFrames == 2    \* frames of a step
MaxBlocks == 2    \* blocks of a field

(***************************************************************************)
(* Floating-point numbers, as dyadic rationals.                            *)
(***************************************************************************)
RECURSIVE Norm(_, _)
Norm(m, k) == IF k > 0 /\ m % 2 = 0 THEN Norm(m \div 2, k - 1) ELSE <<m, k>>

RECURSIVE Pow(_, _)
Pow(b, n) == IF n = 0 THEN 1 ELSE b * Pow(b, n - 1)

Num(n) == <<n, 0>>
Zero == Num(0)
One == Num(1)
Two == Num(2)

Add(x, y) ==
    LET k == IF x[2] > y[2] THEN x[2] ELSE y[2]
    IN  Norm(x[1] * Pow(2, k - x[2]) + y[1] * Pow(2, k - y[2]), k)

Mul(x, y) == Norm(x[1] * y[1], x[2] + y[2])

Sub(x, y) == Add(x, Mul(Num(-1), y))

\* x / 2
Halve(x) == Norm(x[1], x[2] + 1)

(***************************************************************************)
(* Arrays on the heap.  A sequence of statements is written as a nest of   *)
(* singleton sets, {F(y) : y \in {G(x) : x \in {e}}}: y is the value of    *)
(* G(x), computed once, as the statements compute it once.                 *)
(***************************************************************************)
None == <<0, 0, 0, 0>>

\* The value of a cell that numpy.empty_like has not initialised.
Uninit == <<0, -1>>

NoExc == ""

\* The only element of a singleton set.
The(S) == CHOOSE x \in S : TRUE

\* A fresh address: the program's next allocation.
NewAddr(h) == <<0, 0, 0, Cardinality({a \in DOMAIN h : a[1] = 0}) + 1>>

Alloc(h, arr) == The({[h |-> (a :> arr) @@ h, v |-> a, exc |-> NoExc] : a \in {NewAddr(h)}})

Raise(h, e) == [h |-> h, v |-> None, exc |-> e]

\* numpy.asarray of an ndarray is that ndarray.
asarray(a) == a

\* copy handing back the array itself.
copyMut(h, a) == [h |-> h, v |-> a, exc |-> NoExc]

\* ndarray.copy(): a new array with the same shape and contents.
copy(h, a) == Alloc(h, h[a])

\* numpy.empty_like: a new array of the same shape, contents not initialised.
empty_like(h, a) ==
    Alloc(h, [shape |-> h[a].shape,
              data |-> [p \in 1..Len(h[a].data) |-> Uninit]])

NRows(arr) == arr.shape[1]
NCols(arr) == arr.shape[2]
ColOf(arr, p) == ((p - 1) % NCols(arr)) + 1
RowOf(arr, p) == ((p - 1) \div NCols(arr)) + 1

\* arr[i, j], rows and columns counted from 1.
At(arr, i, j) == arr.data[(i - 1) * NCols(arr) + j]

\* DivCols2 with the slice starting one column late.
DivCols2Mut(arr, lo, hi) ==
    [arr EXCEPT !.data =
        [p \in 1..Len(@) |->
            IF ColOf(arr, p) > lo /\ ColOf(arr, p) <= hi THEN Halve(@[p]) ELSE @[p]]]

\* arr[:, lo-1:hi] /= 2 (columns lo..hi, counted from 1).
DivCols2(arr, lo, hi) ==
    [arr EXCEPT !.data =
        [p \in 1..Len(@) |->
            IF ColOf(arr, p) >= lo /\ ColOf(arr, p) <= hi THEN Halve(@[p]) ELSE @[p]]]

\* arr[:, lo-1:hi] += c.
AddCols(arr, lo, hi, c) ==
    [arr EXCEPT !.data =
        [p \in 1..Len(@) |->
            IF ColOf(arr, p) >= lo /\ ColOf(arr, p) <= hi THEN Add(@[p], c) ELSE @[p]]]

\* arr[:, j-1] *= c.
MulCol(arr, j, c) ==
    [arr EXCEPT !.data =
        [p \in 1..Len(@) |-> IF ColOf(arr, p) = j THEN Mul(@[p], c) ELSE @[p]]]

(***************************************************************************)
(* quat2matrix: an array of quaternions into an array of rotation matrices *)
(***************************************************************************)
\* The two assertions of quat2matrix.
IsQuatArray(arr) == Len(arr.shape) = 2 /\ arr.shape[2] = 4

\* 1 - 2*a*a - 2*b*b
QDiag(a, b) == Sub(Sub(One, Mul(Mul(Two, a), a)), Mul(Mul(Two, b), b))

\* 2*a*b + 2*c*d
QPlus(a, b, c, d) == Add(Mul(Mul(Two, a), b), Mul(Mul(Two, c), d))

\* QMinus with the sign of the second product wrong.
QMinusMut(a, b, c, d) == Add(Mul(Mul(Two, a), b), Mul(Mul(Two, c), d))

\* 2*a*b - 2*c*d
QMinus(a, b, c, d) == Sub(Mul(Mul(Two, a), b), Mul(Mul(Two, c), d))

\* The nine entries of the matrix of one quaternion q = (q1, q2, q3, q0), in the
\* order of the list quat2matrix transposes.
QuatEntries(q) ==
    << QDiag(q[2], q[3]),              QMinus(q[1], q[2], q[4], q[3]),
       QPlus(q[1], q[3], q[4], q[2]),  QPlus(q[1], q[2], q[4], q[3]),
       QDiag(q[1], q[3]),              QMinus(q[2], q[3], q[4], q[1]),
       QMinus(q[1], q[3], q[4], q[2]), QPlus(q[2], q[3], q[4], q[1]),
       QDiag(q[1], q[2]) >>

\* numpy.transpose([...]).reshape(-1, 3, 3) of the nine entry arrays: matrix i is
\* made of entry 1..9 of quaternion i.
QuatMatrices(arr) ==
    [shape |-> <<NRows(arr), 3, 3>>,
     data |-> [p \in 1..(9 * NRows(arr)) |->
        QuatEntries([j \in 1..4 |-> At(arr, ((p - 1) \div 9) + 1, j)])[((p - 1) % 9) + 1]]]

quat2matrix(h, quatArray) ==
    IF ~IsQuatArray(h[asarray(quatArray)]) THEN Raise(h, "AssertionError")
    ELSE Alloc(h, QuatMatrices(h[quatArray]))

(***************************************************************************)
(* tensor2: the product of each symmetric tensor with itself               *)
(***************************************************************************)
\* IsTensorArray accepting more than 6 columns.
IsTensorArrayMut(arr) == Len(arr.shape) = 2 /\ arr.shape[2] >= 6

\* The two assertions of tensor2 and of green.
IsTensorArray(arr) == Len(arr.shape) = 2 /\ arr.shape[2] = 6

\* Column indices of the tensor array, counted from 1.
t11 == 1
t22 == 2
t33 == 3
t12 == 4
t13 == 5
t23 == 6
t21 == t12
t31 == t13
t32 == t23

\* Dot3 with the last factor taken from the wrong column.
Dot3Mut(A, i, a, b, c, d, e, f) ==
    Add(Add(Mul(At(A, i, a), At(A, i, b)), Mul(At(A, i, c), At(A, i, d))),
        Mul(At(A, i, e), At(A, i, e)))

\* Row i of A[:,a]*A[:,b] + A[:,c]*A[:,d] + A[:,e]*A[:,f]
Dot3(A, i, a, b, c, d, e, f) ==
    Add(Add(Mul(At(A, i, a), At(A, i, b)), Mul(At(A, i, c), At(A, i, d))),
        Mul(At(A, i, e), At(A, i, f)))

\* The six assignments result[:,t] = ...; result is a new array, so none of them
\* changes what the next one reads from A.  A column past the sixth stays as
\* empty_like left it.
Products(result, A) ==
    [result EXCEPT !.data =
        [p \in 1..Len(@) |->
            IF ColOf(A, p) = t11 THEN Dot3(A, RowOf(A, p), t11, t11, t12, t21, t13, t31)
            ELSE IF ColOf(A, p) = t22 THEN Dot3(A, RowOf(A, p), t21, t12, t22, t22, t23, t32)
            ELSE IF ColOf(A, p) = t33 THEN Dot3(A, RowOf(A, p), t31, t13, t32, t23, t33, t33)
            ELSE IF ColOf(A, p) = t12 THEN Dot3(A, RowOf(A, p), t11, t12, t12, t22, t13, t32)
            ELSE IF ColOf(A, p) = t13 THEN Dot3(A, RowOf(A, p), t11, t13, t12, t23, t13, t33)
            ELSE IF ColOf(A, p) = t23 THEN Dot3(A, RowOf(A, p), t21, t13, t22, t23, t23, t33)
            ELSE @[p]]]

tensor2(h, A) ==
    IF ~IsTensorArray(h[asarray(A)]) THEN Raise(h, "AssertionError")
    ELSE The({[h |-> [r.h EXCEPT ![r.v] = Products(@, r.h[A])], v |-> r.v, exc |-> NoExc] :
                r \in {empty_like(h, A)}})

(***************************************************************************)
(* green: Green strain from Nominal strain                                 *)
(***************************************************************************)
\* V[:, 3:] /= 2; V[:, :3] += 1, on the copy c.
greenStretch(c) ==
    [h |-> [c.h EXCEPT ![c.v] = AddCols(DivCols2(@, 4, NCols(@)), 1, 3, One)], v |-> c.v]

\* V[:, :3] -= 1; V[:, :3] /= 2; return V, on the product w.
greenReturn(w) ==
    IF w.exc # NoExc THEN w
    ELSE [h |-> [w.h EXCEPT ![w.v] = DivCols2(AddCols(@, 1, 3, Num(-1)), 1, 3)],
          v |-> w.v, exc |-> NoExc]

green(h, NEarray) ==
    IF ~IsTensorArray(h[asarray(NEarray)]) THEN Raise(h, "AssertionError")
    ELSE The({greenReturn(w) :
                w \in {tensor2(V.h, V.v) :
                    V \in {greenStretch(c) : c \in {copy(h, NEarray)}}}})

(***************************************************************************)
(* The results store, as the program sees it.                              *)
(*   odb.steps[s].frames[f].fieldOutputs   field name -> field             *)
(*   field.bulkDataBlocks                  the blocks of a field           *)
(*   block.data, .elementLabels, .localCoordSystem   addresses of arrays   *)
(***************************************************************************)
\* block.sectionPoint of a block without section point (Python's None); a
\* SectionPoint object is modelled by its number, 1 or more.
NoSectionPoint == 0

\* numpy.any of block.sectionPoint: None is false, a SectionPoint object is true.
anySectionPoint(sp) == sp # NoSectionPoint

\* numpy.any of block.localCoordSystem: None is false, an array is true when
\* one of its elements is not zero.
anyArray(h, a) == a # None /\ \E p \in 1..Len(h[a].data) : h[a].data[p] # Zero

\* numpy.ascontiguousarray: the same values in C order, which data already is.
ascontiguousarray(a) == a

\* The inversion leaving the scalar part as it is.
InvertQuatMut(c) == [h |-> c.h, v |-> c.v]

\* quatArray[:, 3] *= -1, on the copy c.
InvertQuat(c) == [h |-> [c.h EXCEPT ![c.v] = MulCol(@, 4, Num(-1))], v |-> c.v]

\* options = dict(position=..., instance=..., labels=..., data=green(block.data)) and
\* the optional sectionPoint, given g, what green returned.
baseOptions(g, block) ==
    [position |-> block.position,
     instance |-> block.instance,
     labels   |-> block.elementLabels,
     data     |-> g.v]
    @@ (IF anySectionPoint(block.sectionPoint)
        THEN ("sectionPoint" :> block.sectionPoint) ELSE <<>>)

\* options["localCoordSystem"] = ..., given m, what quat2matrix returned.
withLocalCoordSystem(m, options) ==
    IF m.exc # NoExc THEN [h |-> m.h, v |-> <<>>, exc |-> m.exc]
    ELSE [h |-> m.h,
          v |-> options @@ ("localCoordSystem" :> ascontiguousarray(m.v)),
          exc |-> NoExc]

\* The rest of the loop body of calculateGE, given g, what green returned.
optionsAfterGreen(g, block, toggle) ==
    IF g.exc # NoExc THEN [h |-> g.h, v |-> <<>>, exc |-> g.exc]
    ELSE IF toggle /\ anyArray(g.h, block.localCoordSystem)
    THEN The({withLocalCoordSystem(m, baseOptions(g, block)) :
                m \in {quat2matrix(q.h, q.v) :
                    q \in {InvertQuat(c) : c \in {copy(g.h, block.localCoordSystem)}}}})
    ELSE [h |-> g.h, v |-> baseOptions(g, block), exc |-> NoExc]

\* The keyword arguments calculateGE builds for one block of NE: [h, v, exc]
\* with v the dict of options.
blockOptions(h, block, toggle) ==
    The({optionsAfterGreen(g, block, toggle) : g \in {green(h, block.data)}})

\* FieldOutput storing the new field under the name of the source field.
FieldOutputMut(frame, NE) ==
    [frame EXCEPT !.fieldOutputs =
        ("NE" :> [name |-> "GE", description |-> "Green strain components",
                  type |-> NE.type, validInvariants |-> NE.validInvariants,
                  isEngineeringTensor |-> TRUE, bulkDataBlocks |-> <<>>]) @@ @]

\* outputFrame.FieldOutput(name="GE", ...): the frame with the new, empty field.
FieldOutput(frame, NE) ==
    [frame EXCEPT !.fieldOutputs =
        @ @@ ("GE" :> [name |-> "GE", description |-> "Green strain components",
                       type |-> NE.type, validInvariants |-> NE.validInvariants,
                       isEngineeringTensor |-> TRUE, bulkDataBlocks |-> <<>>])]

\* addData putting the block in front of the field's blocks.
addDataMut(field, options) ==
    [field EXCEPT !.bulkDataBlocks = <<options>> \o @]

\* GE.addData(**options): the field with one more block.
addData(field, options) ==
    [field EXCEPT !.bulkDataBlocks = Append(@, options)]

(***************************************************************************)
(* The odb files the program is run on.                                    *)
(***************************************************************************)
\* The values a component is drawn from: 0, 1, -1/2, 1/2, -1, 3/2.
Values == << Zero, One, <<-1, 1>>, <<1, 1>>, Num(-1), <<3, 1>> >>

\* Component j of the row numbered i: digit j of i in base CompBase.
Comp(i, j) == Values[((i \div Pow(CompBase, j - 1)) % CompBase) + 1]

\* The batch of n rows of c components whose first row is numbered s.
Batch(s, n, c) ==
    [shape |-> <<n, c>>,
     data |-> [p \in 1..(n * c) |->
                 Comp(s + ((p - 1) \div c) * (CompBase + 1), ((p - 1) % c) + 1)]]

OdbNames == {"Job-1.odb", "Job-2.odb"}
Positions == <<"INTEGRATION_POINT", "ELEMENT_NODAL">>
Instances == <<"PART-1-1", "PART-2-1">>

\* The 24 unit quaternions with components in {0, 1, -1, 1/2, -1/2}.
UnitQuat(j) ==
    IF j < 16
    THEN [c \in 1..4 |-> IF (j \div Pow(2, c - 1)) % 2 = 0 THEN <<1, 1>> ELSE <<-1, 1>>]
    ELSE [c \in 1..4 |-> IF c # ((j - 16) \div 2) + 1 THEN Zero
                         ELSE IF j % 2 = 0 THEN One ELSE Num(-1)]

\* The kinds of block, numbered from 0: rows, section point, orientation, data
\* (every third kind of data has the 3 columns of a surface tensor), position and
\* instance are the digits of k.
NumBlockKinds == MaxRows * 48

BlockKind(k) ==
    LET n  == (k % MaxRows) + 1
        k1 == k \div MaxRows
    IN  [n             |-> n,
         sectionPoint  |-> IF k1 % 2 = 0 THEN NoSectionPoint ELSE 1 + ((k1 \div 2) % 2),
         hasLcs        |-> (k1 \div 2) % 2 = 1,
         position      |-> Positions[((k1 \div 12) % 2) + 1],
         instance      |-> Instances[((k1 \div 24) % 2) + 1],
         data          |-> Batch(41 * k + 300, n, IF (k1 \div 4) % 3 = 2 THEN 3 ELSE 6),
         elementLabels |-> [shape |-> <<n>>, data |-> [i \in 1..n |-> Num(10 * k + i)]],
         quats         |-> [shape |-> <<n, 4>>,
                            data |-> [p \in 1..(4 * n) |->
                                UnitQuat((k + 5 * ((p - 1) \div 4)) % 24)[((p - 1) % 4) + 1]]]]

\* The kinds of frame, numbered from 0: kinds 0 and 1 hold no NE field; the others
\* hold NE with 0..MaxBlocks blocks of successive kinds.
NumFrameKinds == 2 + NumBlockKinds * (MaxBlocks + 1)

FrameKind(f) ==
    LET g == (f - 2) \div (MaxBlocks + 1)
    IN  [hasNE  |-> f >= 2,
         others |-> IF f % 2 = 1 THEN {"S"} ELSE {},
         blocks |-> IF f < 2 THEN <<>>
                    ELSE [b \in 1..((f - 2) % (MaxBlocks + 1)) |->
                            BlockKind((g + 7 * (b - 1)) % NumBlockKinds)]]

\* The shapes of a store: the number of frames of each of its steps.
RECURSIVE SeqsUpTo(_, _)
SeqsUpTo(S, n) ==
    IF n = 0 THEN {<<>>}
    ELSE SeqsUpTo(S, n - 1) \cup {Append(q, x) : q \in SeqsUpTo(S, n - 1), x \in S}

Shapes == SeqsUpTo(0..MaxFrames, MaxSteps) \ {<<>>}

RECURSIVE SumTo(_, _)
SumTo(shape, s) == IF s = 0 THEN 0 ELSE shape[s] + SumTo(shape, s - 1)

\* The kind of frame f of step s of the store of that shape whose first frame is of
\* kind start.
KindAt(shape, start, s, f) ==
    FrameKind((start + 37 * (SumTo(shape, s - 1) + f - 1)) % NumFrameKinds)

\* A store, as openOdb returns it: its steps, and its arrays on the heap.
Store(shape, start) ==
    [steps |->
        [s \in 1..Len(shape) |-> [frames |->
            [f \in 1..shape[s] |-> [fieldOutputs |->
                LET fk == KindAt(shape, start, s, f)
                IN  [nm \in fk.others \cup (IF fk.hasNE THEN {"NE"} ELSE {}) |->
                        IF nm = "NE"
                        THEN [name |-> "NE", description |-> "Nominal strain components",
                              type |-> "TENSOR_3D_FULL",
                              validInvariants |-> {"MAX_PRINCIPAL", "MIN_PRINCIPAL"},
                              bulkDataBlocks |->
                                 [b \in 1..Len(fk.blocks) |->
                                    [position |-> fk.blocks[b].position,
                                     instance |-> fk.blocks[b].instance,
                                     elementLabels |-> <<s, f, b, 2>>,
                                     data |-> <<s, f, b, 1>>,
                                     sectionPoint |-> fk.blocks[b].sectionPoint,
                                     localCoordSystem |->
                                        IF fk.blocks[b].hasLcs THEN <<s, f, b, 3>> ELSE None]]]
                        ELSE [name |-> nm, description |-> "Stress components",
                              type |-> "TENSOR_3D_FULL",
                              validInvariants |-> {"MISES"},
                              bulkDataBlocks |-> <<>>]]]]]],
     arrays |->
        [a \in {x \in (1..Len(shape)) \X (1..MaxFrames) \X (1..MaxBlocks) \X (1..3) :
                    /\ x[2] <= shape[x[1]]
                    /\ x[3] <= Len(KindAt(shape, start, x[1], x[2]).blocks)
                    /\ x[4] = 3 => KindAt(shape, start, x[1], x[2]).blocks[x[3]].hasLcs} |->
            LET bk == KindAt(shape, start, a[1], a[2]).blocks[a[3]]
            IN  IF a[4] = 1 THEN bk.data ELSE IF a[4] = 2 THEN bk.elementLabels ELSE bk.quats]]

\* The stores fromOdb is run on: every shape with a few kinds of first frame, and
\* every kind of frame as the only frame.
Stores ==
    {Store(shape, start) : shape \in Shapes, start \in 0..7}
    \cup {Store(<<1>>, start) : start \in 0..(NumFrameKinds - 1)}

NoOdb == [name |-> "", steps |-> <<>>]
\* No file exists.
NoFiles == [n \in {} |-> NoOdb]
InAddr == <<1, 1, 1, 1>>
NoCall == [fn |-> "", in |-> [shape |-> <<0>>, data |-> <<>>]]
NoRet == [v |-> None, exc |-> NoExc]

(***************************************************************************)
(* fromOdb: add Green strain to each frame which contains Nominal strain.  *)
(* pc is "fromOdb" at the call, "frames" at the head of the loops over     *)
(* steps and frames, "blocks" at the head of calculateGE's loop over the   *)
(* blocks, "closing" when the with statement is left, "main" at the head   *)
(* of the command-line loop, "done" after a normal end and "raised" after  *)
(* an exception has left the program.                                      *)
(***************************************************************************)
Frozen == <<argv, caller, enableLocalCoordSystem, disk, stdout, call, ret>>

CurFrame == odb.steps[cursor[1]].frames[cursor[2]]
CurNE == CurFrame.fieldOutputs["NE"]

\* An exception inside the with statement leaving the program at once.
OnErrorMut == "raised"

\* Where an exception raised inside "with closing(openOdb(odbName)) as odb" goes:
\* through the context manager's exit.
OnError == "closing"

\* Where the program goes after closing.__exit__: no except clause catches the
\* exception e, so it leaves fromOdb and its caller; without one fromOdb returns to
\* the command-line loop or to the job-completion hook.
AfterClose(e, c) == IF e # NoExc THEN "raised" ELSE IF c = "cli" THEN "main" ELSE "done"

\* openOdb(odbName) of a file that exists.
OpenOdb ==
    /\ pc = "fromOdb"
    /\ odbName \in DOMAIN disk
    /\ odb' = [name |-> odbName, steps |-> disk[odbName].steps]
    /\ heap' = disk[odbName].arrays
    /\ opened' = [opened EXCEPT ![odbName] = @ + 1]
    /\ cursor' = <<1, 1, 1>>
    /\ pc' = "frames"
    /\ UNCHANGED <<Frozen, argi, odbName, stderr, exc, closed>>

\* openOdb(odbName) of a file that does not exist: the store's error propagates.
OpenOdbFails ==
    /\ pc = "fromOdb"
    /\ odbName \notin DOMAIN disk
    /\ exc' = "OdbError"
    /\ pc' = "raised"
    /\ UNCHANGED <<Frozen, argi, odbName, odb, heap, cursor, stderr, opened, closed>>

\* for step in odb.steps.values(): the frames of the step are exhausted.
NextStep ==
    /\ pc = "frames"
    /\ cursor[1] <= Len(odb.steps)
    /\ cursor[2] > Len(odb.steps[cursor[1]].frames)
    /\ cursor' = <<cursor[1] + 1, 1, 1>>
    /\ UNCHANGED <<Frozen, argi, pc, odbName, odb, heap, stderr, exc, opened, closed>>

\* The steps are exhausted: the with statement is left.
EndSteps ==
    /\ pc = "frames"
    /\ cursor[1] > Len(odb.steps)
    /\ pc' = "closing"
    /\ UNCHANGED <<Frozen, argi, odbName, odb, heap, cursor, stderr, exc, opened, closed>>

\* if "NE" in frame.fieldOutputs: false.
SkipFrame ==
    /\ pc = "frames"
    /\ cursor[1] <= Len(odb.steps)
    /\ cursor[2] <= Len(odb.steps[cursor[1]].frames)
    /\ "NE" \notin DOMAIN CurFrame.fieldOutputs
    /\ cursor' = <<cursor[1], cursor[2] + 1, 1>>
    /\ UNCHANGED <<Frozen, argi, pc, odbName, odb, heap, stderr, exc, opened, closed>>

\* if "NE" in frame.fieldOutputs: true; calculateGE creates the field GE.
CreateGE ==
    /\ pc = "frames"
    /\ cursor[1] <= Len(odb.steps)
    /\ cursor[2] <= Len(odb.steps[cursor[1]].frames)
    /\ "NE" \in DOMAIN CurFrame.fieldOutputs
    /\ odb' = [odb EXCEPT !.steps[cursor[1]].frames[cursor[2]] = FieldOutput(@, CurNE)]
    /\ pc' = "blocks"
    /\ UNCHANGED <<Frozen, argi, odbName, heap, cursor, stderr, exc, opened, closed>>

\* One turn of "for block in NE.bulkDataBlocks" that reaches GE.addData.
AddBlock ==
    /\ pc = "blocks"
    /\ cursor[3] <= Len(CurNE.bulkDataBlocks)
    /\ \E r \in {blockOptions(heap, CurNE.bulkDataBlocks[cursor[3]], enableLocalCoordSystem)} :
           /\ r.exc = NoExc
           /\ heap' = r.h
           /\ odb' = [odb EXCEPT
                 !.steps[cursor[1]].frames[cursor[2]].fieldOutputs["GE"] = addData(@, r.v)]
    /\ cursor' = <<cursor[1], cursor[2], cursor[3] + 1>>
    /\ UNCHANGED <<Frozen, argi, pc, odbName, stderr, exc, opened, closed>>

\* One turn of the loop in which green or quat2matrix raises.
BlockRaises ==
    /\ pc = "blocks"
    /\ cursor[3] <= Len(CurNE.bulkDataBlocks)
    /\ \E r \in {blockOptions(heap, CurNE.bulkDataBlocks[cursor[3]], enableLocalCoordSystem)} :
           /\ r.exc # NoExc
           /\ heap' = r.h
           /\ exc' = r.exc
    /\ pc' = OnError
    /\ UNCHANGED <<Frozen, argi, odbName, odb, cursor, stderr, opened, closed>>

\* The blocks are exhausted: calculateGE returns, the next frame is due.
EndBlocks ==
    /\ pc = "blocks"
    /\ cursor[3] > Len(CurNE.bulkDataBlocks)
    /\ cursor' = <<cursor[1], cursor[2] + 1, 1>>
    /\ pc' = "frames"
    /\ UNCHANGED <<Frozen, argi, odbName, odb, heap, stderr, exc, opened, closed>>

\* closing.__exit__: odb.close(), then the exception, if any, goes on.
CloseOdb ==
    /\ pc = "closing"
    /\ closed' = [closed EXCEPT ![odb.name] = @ + 1]
    /\ pc' = AfterClose(exc, caller)
    /\ argi' = IF pc' = "main" THEN argi + 1 ELSE argi
    /\ UNCHANGED <<Frozen, odbName, odb, heap, cursor, stderr, exc, opened>>

NextOdb ==
    \/ OpenOdb \/ OpenOdbFails \/ NextStep \/ EndSteps \/ SkipFrame
    \/ CreateGE \/ AddBlock \/ BlockRaises \/ EndBlocks \/ CloseOdb

\* fromOdb called once, as onJobCompletion calls it.
Init ==
    /\ argv = <<>> /\ argi = 1
    /\ caller = "hook"
    /\ pc = "fromOdb"
    /\ odbName = "Job-1.odb"
    /\ enableLocalCoordSystem \in BOOLEAN
    /\ \E st \in Stores, exists \in BOOLEAN :
          disk = IF exists THEN ("Job-1.odb" :> st) ELSE NoFiles
    /\ odb = NoOdb
    /\ cursor = <<1, 1, 1>>
    /\ heap = <<>>
    /\ stderr = <<>> /\ stdout = <<>>
    /\ exc = NoExc
    /\ opened = [n \in OdbNames |-> 0]
    /\ closed = [n \in OdbNames |-> 0]
    /\ call = NoCall
    /\ ret = NoRet

Spec == Init /\ [][NextOdb]_vars

(***************************************************************************)
(* The command-line loop: for arg in sys.argv[1:].                         *)
(***************************************************************************)
Args == {"--help", "--test"} \cup OdbNames

\* The command lines: up to MaxArgs arguments, no file named twice.
Argvs ==
    {a \in SeqsUpTo(Args, MaxArgs) :
        \A i, j \in 1..Len(a) : (i # j /\ a[i] \in OdbNames) => a[i] # a[j]}

\* The files of the command-line runs: one frame each, without NE, with one good
\* block of NE, or with one block of NE of 3 columns.
CliStores == {Store(<<1>>, f) : f \in {1, 3, 3 + 8 * MaxRows * (MaxBlocks + 1)}}

\* "--help" == arg: print(__doc__)
PrintHelp ==
    /\ pc = "main"
    /\ argi <= Len(argv)
    /\ argv[argi] = "--help"
    /\ stdout' = Append(stdout, "__doc__")
    /\ argi' = argi + 1
    /\ UNCHANGED <<argv, pc, caller, odbName, enableLocalCoordSystem, disk, odb, cursor,
                   heap, stderr, exc, opened, closed, call, ret>>

\* "--test" == arg: doctest.testmod(verbose=True) reports on sys.stdout.
RunTests ==
    /\ pc = "main"
    /\ argi <= Len(argv)
    /\ argv[argi] = "--test"
    /\ stdout' = Append(stdout, "doctest")
    /\ argi' = argi + 1
    /\ UNCHANGED <<argv, pc, caller, odbName, enableLocalCoordSystem, disk, odb, cursor,
                   heap, stderr, exc, opened, closed, call, ret>>

\* Any other argument: print(arg, file=sys.stderr), then fromOdb(odbName = arg).
EchoArg ==
    /\ pc = "main"
    /\ argi <= Len(argv)
    /\ argv[argi] \notin {"--help", "--test"}
    /\ stderr' = Append(stderr, argv[argi])
    /\ odbName' = argv[argi]
    /\ pc' = "fromOdb"
    /\ UNCHANGED <<Frozen, argi, odb, cursor, heap, exc, opened, closed>>

\* The arguments are exhausted: the script ends.
EndArgs ==
    /\ pc = "main"
    /\ argi > Len(argv)
    /\ pc' = "done"
    /\ UNCHANGED <<Frozen, argi, odbName, odb, cursor, heap, stderr, exc, opened, closed>>

NextCLI == PrintHelp \/ RunTests \/ EchoArg \/ EndArgs \/ NextOdb

InitCLI ==
    /\ argv \in Argvs /\ argi = 1
    /\ caller = "cli"
    /\ pc = "main"
    /\ odbName = ""
    /\ enableLocalCoordSystem \in BOOLEAN
    /\ disk \in UNION {[D -> CliStores] : D \in SUBSET OdbNames}
    /\ odb = NoOdb
    /\ cursor = <<1, 1, 1>>
    /\ heap = <<>>
    /\ stderr = <<>> /\ stdout = <<>>
    /\ exc = NoExc
    /\ opened = [n \in OdbNames |-> 0]
    /\ closed = [n \in OdbNames |-> 0]
    /\ call = NoCall
    /\ ret = NoRet

SpecCLI == InitCLI /\ [][NextCLI]_vars

(***************************************************************************)
(* Direct calls of the numerical functions (as the doctests make them),    *)
(* on arrays drawn from a bounded set.                                     *)
(***************************************************************************)
\* The rows of the doctest of green.
DocNE == <<Num(1), Num(2), Num(3), Num(4), Num(5), Num(6)>>
DocRows == {<<DocNE>>, <<DocNE, DocNE>>}
          \cup {<<DocNE, Batch(s, 1, 6).data>> : s \in 0..CompBase}
          \cup {<<Batch(s, 1, 6).data, DocNE>> : s \in 0..CompBase}

Concat(rows) == IF Len(rows) = 1 THEN rows[1] ELSE rows[1] \o rows[2]

FnInputs ==
    {Batch(s, n, 6) : s \in 0..(Pow(CompBase, 6) - 1), n \in 0..MaxRows}
    \cup {Batch(s, n, 4) : s \in 0..(Pow(CompBase, 4) - 1), n \in 0..MaxRows}
    \cup {Batch(s, n, c) : s \in 0..CompBase, n \in 0..MaxRows, c \in {3, 5, 7}}
    \cup {[shape |-> <<Len(rs), 6>>, data |-> Concat(rs)] : rs \in DocRows}
    \cup {[shape |-> <<c>>, data |-> Batch(s, 1, c).data] : s \in 0..CompBase, c \in {4, 6}}
    \cup {[shape |-> <<n, c, 1>>, data |-> Batch(s, n, c).data] :
              s \in 0..CompBase, n \in 1..MaxRows, c \in {4, 6}}


\* The part of the state a direct call leaves alone.
Idle ==
    /\ argv = <<>> /\ argi = 1 /\ pc = "idle" /\ caller = "" /\ odbName = ""
    /\ enableLocalCoordSystem = TRUE /\ disk = NoFiles /\ odb = NoOdb /\ cursor = <<1, 1, 1>>
    /\ stderr = <<>> /\ stdout = <<>> /\ exc = NoExc
    /\ opened = [n \in OdbNames |-> 0] /\ closed = [n \in OdbNames |-> 0]

InitFn ==
    /\ Idle
    /\ \E x \in FnInputs : heap = (InAddr :> x)
    /\ call = NoCall
    /\ ret = NoRet

\* The call fn(heap[InAddr]) returning r.
Returned(fn, r) ==
    /\ call.fn = ""
    /\ call' = [fn |-> fn, in |-> heap[InAddr]]
    /\ heap' = r.h
    /\ ret' = [v |-> r.v, exc |-> r.exc]
    /\ UNCHANGED <<argv, argi, pc, caller, odbName, enableLocalCoordSystem, disk, odb,
                   cursor, stderr, stdout, exc, opened, closed>>

CallQuat2matrix == \E r \in {quat2matrix(heap, InAddr)} : Returned("quat2matrix", r)
CallTensor2 == \E r \in {tensor2(heap, InAddr)} : Returned("tensor2", r)
CallGreen == \E r \in {green(heap, InAddr)} : Returned("green", r)

NextFn == CallQuat2matrix \/ CallTensor2 \/ CallGreen

SpecFn == InitFn /\ [][NextFn]_vars

(***************************************************************************)
(* What the numerical functions are to compute, row by row.                *)
(***************************************************************************)
Shaped(arr, c) == Len(arr.shape) = 2 /\ arr.shape[2] = c

Row(arr, i) == [j \in 1..arr.shape[2] |-> arr.data[(i - 1) * arr.shape[2] + j]]

Sq(x) == Mul(x, x)
Sum3(x, y, z) == Add(Add(x, y), z)

\* The symmetric 3x3 matrix a packed row (T11, T22, T33, T12, T13, T23) stands for.
Sym(r) == << <<r[1], r[4], r[5]>>, <<r[4], r[2], r[6]>>, <<r[5], r[6], r[3]>> >>

MatMul(X, Y) ==
    [i \in 1..3 |-> [j \in 1..3 |->
        Sum3(Mul(X[i][1], Y[1][j]), Mul(X[i][2], Y[2][j]), Mul(X[i][3], Y[3][j]))]]

Packed(X) == <<X[1][1], X[2][2], X[3][3], X[1][2], X[1][3], X[2][3]>>

SelfProduct(r) ==
    << Sum3(Sq(r[1]), Sq(r[4]), Sq(r[5])),
       Sum3(Sq(r[4]), Sq(r[2]), Sq(r[6])),
       Sum3(Sq(r[5]), Sq(r[6]), Sq(r[3])),
       Sum3(Mul(r[1], r[4]), Mul(r[4], r[2]), Mul(r[5], r[6])),
       Sum3(Mul(r[1], r[5]), Mul(r[4], r[6]), Mul(r[5], r[3])),
       Sum3(Mul(r[4], r[5]), Mul(r[2], r[6]), Mul(r[6], r[3])) >>

Stretch(r) ==
    <<Add(One, r[1]), Add(One, r[2]), Add(One, r[3]), Halve(r[4]), Halve(r[5]), Halve(r[6])>>

GreenOf(r) ==
    LET W == Packed(MatMul(Sym(Stretch(r)), Sym(Stretch(r))))
    IN  <<Halve(Sub(W[1], One)), Halve(Sub(W[2], One)), Halve(Sub(W[3], One)),
          W[4], W[5], W[6]>>

RotationOf(q) ==
    LET x == q[1]
        y == q[2]
        z == q[3]
        w == q[4]
    IN  << Sub(One, Mul(Two, Add(Sq(y), Sq(z)))),
           Mul(Two, Sub(Mul(x, y), Mul(w, z))),
           Mul(Two, Add(Mul(x, z), Mul(w, y))),
           Mul(Two, Add(Mul(x, y), Mul(w, z))),
           Sub(One, Mul(Two, Add(Sq(x), Sq(z)))),
           Mul(Two, Sub(Mul(y, z), Mul(w, x))),
           Mul(Two, Sub(Mul(x, z), Mul(w, y))),
           Mul(Two, Add(Mul(y, z), Mul(w, x))),
           Sub(One, Mul(Two, Add(Sq(x), Sq(y)))) >>

ZeroRow == <<Zero, Zero, Zero, Zero, Zero, Zero>>
\* (6.625, 10.5, 15.125, 17.5, 21.0, 26.0)
DocGE == << <<53, 3>>, <<21, 1>>, <<121, 3>>, <<35, 1>>, Num(21), Num(26) >>
IdentityQuat == <<Zero, Zero, Zero, One>>
IdentityMatrix == <<One, Zero, Zero, Zero, One, Zero, Zero, Zero, One>>

\* C2: green maps a batch of N rows of 6 components to a batch of N rows of 6
\* components; row i of the result is ((W11-1)/2, (W22-1)/2, (W33-1)/2, W12, W13, W23)
\* with W = V.V and V = (1+NE11, 1+NE22, 1+NE33, NE12/2, NE13/2, NE23/2) of row i of
\* the input alone; a zero row gives a zero row and (1, 2, 3, 4, 5, 6) gives
\* (6.625, 10.5, 15.125, 17.5, 21, 26).
C2_GreenFormula ==
    (call.fn = "green" /\ Shaped(call.in, 6)) =>
        /\ ret.exc = NoExc
        /\ ret.v \in DOMAIN heap
        /\ heap[ret.v].shape = call.in.shape
        /\ Len(heap[ret.v].data) = 6 * call.in.shape[1]
        /\ \A i \in 1..call.in.shape[1] :
              /\ Row(heap[ret.v], i) = GreenOf(Row(call.in, i))
              /\ Row(call.in, i) = ZeroRow => Row(heap[ret.v], i) = ZeroRow
              /\ Row(call.in, i) = DocNE => Row(heap[ret.v], i) = DocGE

C2_Witness ==
    /\ call.fn = "green" /\ ret.exc = NoExc
    /\ call.in.shape = <<2, 6>>
    /\ Row(call.in, 2) = DocNE /\ Row(call.in, 1) # DocNE
    /\ Row(heap[ret.v], 2) = DocGE

\* C3: tensor2 and green given a batch that is not 2-dimensional with 6 columns, and
\* quat2matrix given one that is not 2-dimensional with 4 columns, raise an assertion
\* error and return no value.
C3_ShapeErrors ==
    (call.fn # "" /\ ~Shaped(call.in, IF call.fn = "quat2matrix" THEN 4 ELSE 6)) =>
        /\ ret.exc = "AssertionError"
        /\ ret.v = None
        /\ heap = (InAddr :> call.in)

C3_Witness ==
    /\ call.fn = "tensor2" /\ call.in.shape = <<1, 7>> /\ ret.exc = "AssertionError"

\* C8: quat2matrix maps a batch of N >= 0 quaternions (x, y, z, w) to a batch of N
\* 3x3 matrices; matrix i is, row-major, the rotation-matrix formula of quaternion i,
\* with no normalization; the identity quaternion gives the identity matrix.
C8_QuatFormula ==
    (call.fn = "quat2matrix" /\ Shaped(call.in, 4)) =>
        /\ ret.exc = NoExc
        /\ ret.v \in DOMAIN heap
        /\ heap[ret.v].shape = <<call.in.shape[1], 3, 3>>
        /\ Len(heap[ret.v].data) = 9 * call.in.shape[1]
        /\ \A i \in 1..call.in.shape[1] :
              LET m == [k \in 1..9 |-> heap[ret.v].data[9 * (i - 1) + k]]
              IN  /\ m = RotationOf(Row(call.in, i))
                  /\ Row(call.in, i) = IdentityQuat => m = IdentityMatrix

C8_Witness ==
    /\ call.fn = "quat2matrix" /\ ret.exc = NoExc
    /\ call.in.shape = <<2, 4>>
    /\ Row(call.in, 1) = IdentityQuat
    /\ Row(call.in, 2)[1] # Zero /\ Row(call.in, 2)[4] # Zero
    /\ Sum3(Sq(Row(call.in, 2)[1]), Sq(Row(call.in, 2)[2]),
            Add(Sq(Row(call.in, 2)[3]), Sq(Row(call.in, 2)[4]))) # One
    /\ heap[ret.v].shape = <<2, 3, 3>>

\* C9: tensor2 maps a batch of N packed symmetric tensors to N rows of 6 components,
\* in the same packed order, equal to the entries of the full 3x3 product A.A of the
\* symmetric matrix the row stands for; that product is symmetric.
C9_SelfProduct ==
    (call.fn = "tensor2" /\ Shaped(call.in, 6)) =>
        /\ ret.exc = NoExc
        /\ ret.v \in DOMAIN heap
        /\ heap[ret.v].shape = call.in.shape
        /\ Len(heap[ret.v].data) = 6 * call.in.shape[1]
        /\ \A i \in 1..call.in.shape[1] :
              LET A == Sym(Row(call.in, i))
                  AA == MatMul(A, A)
              IN  /\ Row(heap[ret.v], i) = SelfProduct(Row(call.in, i))
                  /\ Row(heap[ret.v], i) = Packed(AA)
                  /\ \A j, k \in 1..3 : AA[j][k] = AA[k][j]

C9_Witness ==
    /\ call.fn = "tensor2" /\ ret.exc = NoExc
    /\ call.in.shape = <<2, 6>>
    /\ \A j \in 4..6 : Row(call.in, 2)[j] \notin {Zero, One}
    /\ Row(call.in, 1) # Row(call.in, 2)
    /\ heap[ret.v].shape = <<2, 6>>

(***************************************************************************)
(* What fromOdb is to leave in the store, told apart from what was in the  *)
(* file when it was opened.                                                *)
(***************************************************************************)
\* The <<step, frame>> pairs of a store.
FramesOf(steps) == UNION {{<<s, f>> : f \in 1..Len(steps[s].frames)} : s \in 1..Len(steps)}

FieldsBefore(x) == disk[odb.name].steps[x[1]].frames[x[2]].fieldOutputs
FieldsNow(x) == odb.steps[x[1]].frames[x[2]].fieldOutputs

\* The loops of fromOdb have gone past frame x.
Passed(x) == x[1] < cursor[1] \/ (x[1] = cursor[1] /\ x[2] < cursor[2])

\* The frames that hold the field GE.
WithGE == {x \in FramesOf(odb.steps) : "GE" \in DOMAIN FieldsNow(x)}

BlocksNE(x) == FieldsBefore(x)["NE"].bulkDataBlocks
BlocksGE(x) == FieldsNow(x)["GE"].bulkDataBlocks

\* An array of the file, as it was when the file was opened.
ArrayBefore(a) == disk[odb.name].arrays[a]

\* The value a keyword argument of addData has when it is left out.
Option(options, key, default) == IF key \in DOMAIN options THEN options[key] ELSE default

\* C1: once fromOdb has run over a store, a frame that had no field NE has the fields
\* it had (no GE, and no error is raised for it), and a frame that had NE has gained
\* exactly the one field GE and still has NE; the steps and frames are those of before.
C1_FieldSets ==
    odb.name # "" =>
        /\ FramesOf(odb.steps) = FramesOf(disk[odb.name].steps)
        /\ \A x \in FramesOf(odb.steps) :
              /\ \A nm \in DOMAIN FieldsBefore(x) :
                    nm \in DOMAIN FieldsNow(x) /\ FieldsNow(x)[nm] = FieldsBefore(x)[nm]
              /\ "NE" \notin DOMAIN FieldsBefore(x) =>
                    DOMAIN FieldsNow(x) = DOMAIN FieldsBefore(x)
              /\ ("NE" \in DOMAIN FieldsBefore(x) /\ (Passed(x) \/ pc = "done")) =>
                    /\ "GE" \notin DOMAIN FieldsBefore(x)
                    /\ DOMAIN FieldsNow(x) = DOMAIN FieldsBefore(x) \cup {"GE"}
                    /\ FieldsNow(x)["GE"].name = "GE"
        /\ pc = "done" => (exc = NoExc /\ \A x \in FramesOf(odb.steps) : Passed(x))
        /\ exc # NoExc =>
              (<<cursor[1], cursor[2]>> \in FramesOf(odb.steps) /\ "NE" \in DOMAIN CurFrame.fieldOutputs)

C1_Witness ==
    /\ pc = "done" /\ exc = NoExc /\ odb.name # ""
    /\ \E x, y \in FramesOf(odb.steps) :
          /\ DOMAIN FieldsBefore(x) = {"S"} /\ DOMAIN FieldsNow(x) = {"S"}
          /\ DOMAIN FieldsBefore(y) = {"NE", "S"} /\ DOMAIN FieldsNow(y) = {"NE", "S", "GE"}
          /\ Len(BlocksGE(y)) > 0

\* C4: for the blocks b1..bk of a frame's NE, calculateGE adds exactly k blocks to GE,
\* in the same order; block j has the position, instance, labels and section point of
\* bj and data equal to green of bj's data.
C4_Blocks ==
    odb.name # "" =>
        \A x \in WithGE :
            /\ Len(BlocksGE(x)) <= Len(BlocksNE(x))
            /\ Passed(x) => Len(BlocksGE(x)) = Len(BlocksNE(x))
            /\ (pc = "blocks" /\ x = <<cursor[1], cursor[2]>>) => Len(BlocksGE(x)) = cursor[3] - 1
            /\ \A j \in 1..Len(BlocksGE(x)) :
                  /\ BlocksGE(x)[j].position = BlocksNE(x)[j].position
                  /\ BlocksGE(x)[j].instance = BlocksNE(x)[j].instance
                  /\ BlocksGE(x)[j].labels = BlocksNE(x)[j].elementLabels
                  /\ heap[BlocksGE(x)[j].labels] = ArrayBefore(BlocksNE(x)[j].elementLabels)
                  /\ Option(BlocksGE(x)[j], "sectionPoint", NoSectionPoint)
                        = BlocksNE(x)[j].sectionPoint
                  /\ DOMAIN BlocksGE(x)[j] \subseteq
                        {"position", "instance", "labels", "data", "sectionPoint", "localCoordSystem"}
                  /\ heap[BlocksGE(x)[j].data].shape = ArrayBefore(BlocksNE(x)[j].data).shape
                  /\ \A i \in 1..ArrayBefore(BlocksNE(x)[j].data).shape[1] :
                        Row(heap[BlocksGE(x)[j].data], i)
                            = GreenOf(Row(ArrayBefore(BlocksNE(x)[j].data), i))

C4_Witness ==
    /\ pc = "done" /\ odb.name # ""
    /\ \E x \in WithGE :
          /\ Len(BlocksNE(x)) = 2 /\ Len(BlocksGE(x)) = 2
          /\ "sectionPoint" \in DOMAIN BlocksGE(x)[1]
          /\ "sectionPoint" \notin DOMAIN BlocksGE(x)[2]
          /\ heap[BlocksGE(x)[1].data] # heap[BlocksGE(x)[2].data]
          /\ heap[BlocksGE(x)[2].data].shape = <<2, 6>>
          /\ Row(heap[BlocksGE(x)[2].data], 2) # ZeroRow

\* The quaternion (x, y, z, -w).
Inverse(q) == <<q[1], q[2], q[3], Mul(Num(-1), q[4])>>

\* C5: with enableLocalCoordSystem on and a quaternion batch on the input block, the
\* output block's orientation is the batch of the rotation matrices of the quaternions
\* (x, y, z, -w), row by row; with the toggle off, or no orientation on the input
\* block, the output block has no orientation.
C5_Orientation ==
    odb.name # "" =>
        \A x \in WithGE : \A j \in 1..Len(BlocksGE(x)) :
            IF enableLocalCoordSystem /\ BlocksNE(x)[j].localCoordSystem # None
            THEN /\ "localCoordSystem" \in DOMAIN BlocksGE(x)[j]
                 /\ heap[BlocksGE(x)[j].localCoordSystem].shape
                       = <<ArrayBefore(BlocksNE(x)[j].localCoordSystem).shape[1], 3, 3>>
                 /\ \A i \in 1..ArrayBefore(BlocksNE(x)[j].localCoordSystem).shape[1] :
                       [k \in 1..9 |-> heap[BlocksGE(x)[j].localCoordSystem].data[9 * (i - 1) + k]]
                           = RotationOf(Inverse(Row(ArrayBefore(BlocksNE(x)[j].localCoordSystem), i)))
            ELSE "localCoordSystem" \notin DOMAIN BlocksGE(x)[j]

C5_Witness ==
    /\ enableLocalCoordSystem /\ odb.name # ""
    /\ \E x \in WithGE :
          /\ Len(BlocksGE(x)) = 2
          /\ "localCoordSystem" \notin DOMAIN BlocksGE(x)[1]
          /\ "localCoordSystem" \in DOMAIN BlocksGE(x)[2]
          /\ heap[BlocksGE(x)[2].localCoordSystem].shape = <<2, 3, 3>>
          /\ Row(ArrayBefore(BlocksNE(x)[2].localCoordSystem), 2)[4] # Zero
          /\ Row(ArrayBefore(BlocksNE(x)[2].localCoordSystem), 2)[1] # Zero

\* C6: a store that fromOdb has opened is closed exactly once when fromOdb returns or
\* fails, also when a block raises; it is open while fromOdb works on it, and the
\* store and the arrays change only while it is open.
C6_ClosedOnce ==
    /\ [](/\ \A n \in OdbNames : closed[n] <= opened[n] /\ opened[n] <= 1
          /\ pc \in {"done", "raised", "main"} => closed = opened
          /\ pc \in {"frames", "blocks", "closing"} =>
                (opened[odb.name] = 1 /\ closed[odb.name] = 0))
    /\ [][(odb' # odb \/ heap' # heap) =>
            (closed' = closed /\ closed[odb'.name] = 0 /\ opened'[odb'.name] = 1)]_vars

C6_Witness ==
    /\ pc = "raised" /\ exc = "AssertionError"
    /\ opened["Job-1.odb"] = 1 /\ closed["Job-1.odb"] = 1
    /\ cursor[3] = 2
    /\ Len(BlocksGE(<<cursor[1], cursor[2]>>)) = 1

\* C10: the arrays of the input blocks (data, labels, quaternions) hold the values
\* they held in the file, whatever calculateGE has processed and whichever way the
\* toggle is set; every array given to the store is a new one; the array green gave
\* to tensor2 still holds the stretch V = NE + I that green put into it.
C10_InputsUnchanged ==
    odb.name # "" =>
        /\ \A a \in DOMAIN disk[odb.name].arrays : a \in DOMAIN heap /\ heap[a] = ArrayBefore(a)
        /\ \A x \in FramesOf(odb.steps) :
              "NE" \in DOMAIN FieldsBefore(x) => FieldsNow(x)["NE"] = FieldsBefore(x)["NE"]
        /\ \A x \in WithGE : \A j \in 1..Len(BlocksGE(x)) :
              /\ BlocksGE(x)[j].data \notin DOMAIN disk[odb.name].arrays
              /\ Option(BlocksGE(x)[j], "localCoordSystem", None) \notin DOMAIN disk[odb.name].arrays
              /\ \E V \in DOMAIN heap \ DOMAIN disk[odb.name].arrays :
                    /\ V # BlocksGE(x)[j].data
                    /\ heap[V].shape = ArrayBefore(BlocksNE(x)[j].data).shape
                    /\ \A i \in 1..heap[V].shape[1] :
                          Row(heap[V], i) = Stretch(Row(ArrayBefore(BlocksNE(x)[j].data), i))

C10_Witness ==
    /\ pc = "done" /\ enableLocalCoordSystem /\ odb.name # ""
    /\ \E x \in WithGE :
          /\ Len(BlocksGE(x)) = 2
          /\ "localCoordSystem" \in DOMAIN BlocksGE(x)[2]
          /\ \A j \in 1..2 : \E i \in 1..ArrayBefore(BlocksNE(x)[j].data).shape[1], c \in 4..6 :
                /\ Row(ArrayBefore(BlocksNE(x)[j].data), i)[c] # Zero
                /\ Row(heap[BlocksGE(x)[j].data], i) # Row(ArrayBefore(BlocksNE(x)[j].data), i)

(***************************************************************************)
(* What one command line is to do.                                         *)
(***************************************************************************)
\* The file identifiers among the first k arguments, in order.
Identifiers(k) == SelectSeq(SubSeq(argv, 1, k), LAMBDA a : a \notin {"--help", "--test"})

\* The program has ended.
Ended == pc \in {"done", "raised"}

\* Each identifier is echoed before it is processed, in argument order.
EchoedInOrder ==
    /\ pc = "main" => stderr = Identifiers(argi - 1)
    /\ pc \in {"fromOdb", "frames", "blocks", "closing", "raised"} =>
          (stderr = Identifiers(argi) /\ odbName = argv[argi])
    /\ pc = "done" => stderr = Identifiers(Len(argv))
    /\ \A n \in OdbNames : opened[n] > 0 => \E i \in 1..Len(stderr) : stderr[i] = n

\* A failure reaches the caller as it was raised, and is not swallowed.
FailurePropagates ==
    /\ exc # NoExc => pc \in {"closing", "raised"}
    /\ pc = "raised" =>
          /\ exc # NoExc
          /\ exc = "OdbError" <=> argv[argi] \notin DOMAIN disk
          /\ exc = "AssertionError" <=>
                (argv[argi] \in DOMAIN disk /\ closed[argv[argi]] = 1)
    /\ pc = "done" => \A i \in 1..Len(argv) :
          argv[i] \in OdbNames => (argv[i] \in DOMAIN disk /\ closed[argv[i]] = 1)

\* C7: on one command line each identifier is echoed before it is processed, in
\* argument order; a failure propagates to the caller as raised and is not swallowed;
\* and every identifier gets the outcome it has on its own, whether or not an
\* earlier one failed: when the program has ended it has been echoed, and its file,
\* if there is one, has been opened and closed.
C7_Independent ==
    /\ EchoedInOrder
    /\ FailurePropagates
    /\ Ended => \A i \in 1..Len(argv) :
          argv[i] \in OdbNames =>
              /\ \E k \in 1..Len(stderr) : stderr[k] = argv[i]
              /\ argv[i] \in DOMAIN disk => (opened[argv[i]] = 1 /\ closed[argv[i]] = 1)

====
